---- MODULE Spec2Model ----
(***************************************************************************)
(* A model of the wayout-solver GF(2) engine: Bit, Matrix (construction,   *)
(* row operations, Gauss-Jordan elimination), Equations (free/dependent    *)
(* variables, backfeed, enumeration) and the board layer that feeds it.    *)
(* Row and column indices are 0-based as in the source; TLA+ sequences are *)
(* 1-based, so entry (r, c) of data is data[r + 1][c + 1].  An             *)
(* Option<T> is a sequence of length at most one: << >> is None and        *)
(* << v >> is Some(v).                                                     *)
(***************************************************************************)
EXTENDS Integers, Sequences, FiniteSets, TLC

VARIABLES pc, args, matrix, current_cell, iterations, passes,
          original, reduced, free_vars, eqns, results, board, indexed_locations,
          presort, augmented, shown

vars == << pc, args, matrix, current_cell, iterations, passes,
           original, reduced, free_vars, eqns, results, board, indexed_locations,
           presort, augmented, shown >>

\* What the calls outside the elimination pipeline leave behind.
calls == << augmented, shown >>

(***************************************************************************)
(* Bounds of the model.                                                    *)
(***************************************************************************)
MaxRows == 2
MaxCols == 3
MaxCells == 3
MaxRagged == 2

(***************************************************************************)
(* bit.rs                                                                  *)
(***************************************************************************)
Off == 0
On == 1
Bit == {Off, On}

BitAdd(a, b) == IF a = b THEN Off ELSE On

BitMul(a, b) == IF a = On /\ b = On THEN On ELSE Off

(***************************************************************************)
(* Option                                                                  *)
(***************************************************************************)
None == << >>
Some(v) == << v >>
IsSome(o) == Len(o) = 1
Unwrap(o) == o[1]

(***************************************************************************)
(* matrix.rs                                                               *)
(***************************************************************************)
RECURSIVE first_active_column_since(_, _)
first_active_column_since(row, since) ==
  IF since >= Len(row) THEN None
  ELSE IF row[since + 1] = On THEN Some(since)
  ELSE first_active_column_since(row, since + 1)

get_leading_column(row) == first_active_column_since(row, 0)

\* Matrix::new without the check of each row's length.
MatrixNewUncheckedRows(data, rows, cols) ==
  IF rows = 0 \/ cols = 0 THEN None
  ELSE IF Len(data) # rows THEN None
  ELSE Some([rows |-> rows, cols |-> cols, data |-> data])

\* Matrix::new: the shape checks, in the order of the source.
MatrixNew(data, rows, cols) ==
  IF rows = 0 \/ cols = 0 THEN None
  ELSE IF Len(data) # rows THEN None
  ELSE IF \E i \in 1..Len(data) : Len(data[i]) # cols THEN None
  ELSE Some([rows |-> rows, cols |-> cols, data |-> data])

get_at(m, pos) == m.data[pos.row + 1][pos.col + 1]

\* The key with 0 for the rows without a leading column.
SortKeyZeroFirst(row, cols) ==
  IF IsSome(get_leading_column(row)) THEN Unwrap(get_leading_column(row)) ELSE 0

\* The key sort_rows_by_leading_column sorts by.
SortKey(row, cols) ==
  IF IsSome(get_leading_column(row)) THEN Unwrap(get_leading_column(row)) ELSE cols

RemoveAt(s, i) == SubSeq(s, 1, i - 1) \o SubSeq(s, i + 1, Len(s))

RECURSIVE Orderings(_)
Orderings(s) ==
  IF s = << >> THEN { << >> }
  ELSE UNION { { << s[i] >> \o p : p \in Orderings(RemoveAt(s, i)) } : i \in 1..Len(s) }

RowsWithKey(data, cols, k) == SelectSeq(data, LAMBDA r : SortKey(r, cols) = k)

RECURSIVE SortedFrom(_, _, _)
SortedFrom(data, cols, k) ==
  IF k > cols THEN { << >> }
  ELSE { p \o rest : p \in Orderings(RowsWithKey(data, cols, k)),
                     rest \in SortedFrom(data, cols, k + 1) }

\* The rows left in the order they had.
sort_rows_not_at_all(m) == { m }

\* sort_unstable_by_key: rows in ascending key order; the order of rows with
\* equal keys is not specified, so every such order is an outcome.
sort_rows_by_leading_column(m) ==
  { [m EXCEPT !.data = d] : d \in SortedFrom(m.data, m.cols, 0) }

\* The row addition with the entries OR-ed instead of added.
elementary_or_row_to(m, source_row, target_row) ==
  LET row == m.data[source_row + 1]
  IN [m EXCEPT !.data[target_row + 1] =
        [c \in 1..m.cols |-> IF m.data[target_row + 1][c] = On THEN On ELSE row[c]]]

elementary_add_row_to(m, source_row, target_row) ==
  LET row == m.data[source_row + 1]
  IN [m EXCEPT !.data[target_row + 1] =
        [c \in 1..m.cols |-> BitAdd(m.data[target_row + 1][c], row[c])]]

\* The decimation loop without the skip of the source row: the source row is
\* added onto itself.
RECURSIVE DecimateEveryRowFrom(_, _, _, _)
DecimateEveryRowFrom(m, source_row, column, row) ==
  IF row >= m.rows THEN m
  ELSE IF m.data[row + 1][column + 1] = On
       THEN DecimateEveryRowFrom(elementary_add_row_to(m, source_row, row),
                                 source_row, column, row + 1)
  ELSE DecimateEveryRowFrom(m, source_row, column, row + 1)

RECURSIVE DecimateFrom(_, _, _, _)
DecimateFrom(m, source_row, column, row) ==
  IF row >= m.rows THEN m
  ELSE IF row = source_row THEN DecimateFrom(m, source_row, column, row + 1)
  ELSE IF m.data[row + 1][column + 1] = On
       THEN DecimateFrom(elementary_add_row_to(m, source_row, row), source_row, column, row + 1)
  ELSE DecimateFrom(m, source_row, column, row + 1)

\* The loop of the decimation started at row 1 instead of row 0.
decimate_column_from_second_row(m, source_row, column) ==
  DecimateFrom(m, source_row, column, 1)

\* Decimation of the rows below the source row only (row-echelon, not reduced).
decimate_column_below(m, source_row, column) ==
  DecimateFrom(m, source_row, column, source_row + 1)

decimate_column_with_row(m, source_row, column) == DecimateFrom(m, source_row, column, 0)

\* BoundedPosition::step_right / step_down: << moved, position >>.
step_right(pos) ==
  IF pos.col + 1 = pos.width THEN << FALSE, pos >>
  ELSE << TRUE, [pos EXCEPT !.col = pos.col + 1] >>

\* step_down that reports a move without making it.
step_down_in_place(pos) ==
  IF pos.row + 1 = pos.height THEN << FALSE, pos >>
  ELSE << TRUE, pos >>

step_down(pos) ==
  IF pos.row + 1 = pos.height THEN << FALSE, pos >>
  ELSE << TRUE, [pos EXCEPT !.row = pos.row + 1] >>

StartPosition(m) == [width |-> m.cols, height |-> m.rows, row |-> 0, col |-> 0]

\* The loop of Matrix::eliminate from the matrix m and the cursor cell: the set
\* of the matrices it can leave, one for each way the sorts can order the rows
\* with equal keys.
RECURSIVE EliminateLoop(_, _)
EliminateLoop(m, cell) ==
  IF get_at(m, cell) = Off
  THEN IF step_right(cell)[1] THEN EliminateLoop(m, step_right(cell)[2]) ELSE { m }
  ELSE UNION { IF step_down(cell)[1] THEN EliminateLoop(s, step_down(cell)[2]) ELSE { s } :
               s \in sort_rows_by_leading_column(
                       decimate_column_with_row(m, cell.row, cell.col)) }

\* Matrix::eliminate as a whole: every matrix a call on m can leave.
eliminate(m) ==
  UNION { EliminateLoop(s, StartPosition(s)) : s \in sort_rows_by_leading_column(m) }

is_row_zero(m, row) == \A c \in 1..Len(m.data[row + 1]) : m.data[row + 1][c] # On

RECURSIVE NonLeadingFrom(_, _, _)
NonLeadingFrom(m, pos, free_cols) ==
  IF get_at(m, pos) = Off
  THEN IF ~step_right(pos)[1] THEN Append(free_cols, pos.col)
       ELSE NonLeadingFrom(m, step_right(pos)[2], Append(free_cols, pos.col))
  ELSE IF ~step_down(pos)[1] THEN free_cols
       ELSE IF ~step_right(step_down(pos)[2])[1] THEN free_cols
       ELSE NonLeadingFrom(m, step_right(step_down(pos)[2])[2], free_cols)

\* Matrix::non_leading_columns: the columns pushed along the cursor path.
non_leading_columns(m) == NonLeadingFrom(m, StartPosition(m), << >>)

\* The count loop returning one past the first all-Off row.
RECURSIVE NonZeroFromInclusive(_, _)
NonZeroFromInclusive(m, row) ==
  IF row >= m.rows THEN m.rows
  ELSE IF is_row_zero(m, row) THEN row + 1
  ELSE NonZeroFromInclusive(m, row + 1)

RECURSIVE NonZeroFrom(_, _)
NonZeroFrom(m, row) ==
  IF row >= m.rows THEN m.rows
  ELSE IF is_row_zero(m, row) THEN row
  ELSE NonZeroFrom(m, row + 1)

non_zero_row_count(m) == NonZeroFrom(m, 0)

\* augment_column that pushes the entries but leaves cols as it was.
augment_column_same_cols(m, col) ==
  IF Len(col) # m.rows THEN << FALSE, m >>
  ELSE << TRUE, [m EXCEPT !.data = [row \in 1..m.rows |-> Append(m.data[row], col[row])]] >>

\* Matrix::augment_column: << accepted, matrix >>.
augment_column(m, col) ==
  IF Len(col) # m.rows THEN << FALSE, m >>
  ELSE << TRUE, [m EXCEPT !.data = [row \in 1..m.rows |-> Append(m.data[row], col[row])],
                          !.cols = m.cols + 1] >>

(***************************************************************************)
(* grid.rs                                                                 *)
(***************************************************************************)
Direction == << "Up", "Down", "Left", "Right" >>

Position(row, col) == [row |-> row, col |-> col]

\* Index<Position> for Grid: row-major storage.
GridAt(g, pos) == g.data[pos.row * g.width + pos.col + 1]

step_in_bounds(pos, g, dir) ==
  CASE dir = "Up" -> IF pos.row = 0 THEN None ELSE Some([pos EXCEPT !.row = pos.row - 1])
    [] dir = "Down" -> IF pos.row = g.height - 1 THEN None
                       ELSE Some([pos EXCEPT !.row = pos.row + 1])
    [] dir = "Left" -> IF pos.col = 0 THEN None ELSE Some([pos EXCEPT !.col = pos.col - 1])
    [] dir = "Right" -> IF pos.col = g.width - 1 THEN None
                        ELSE Some([pos EXCEPT !.col = pos.col + 1])

(***************************************************************************)
(* board.rs                                                                *)
(***************************************************************************)
Cell(up, down, left, right, value) ==
  [affects_up |-> up, affects_down |-> down, affects_left |-> left,
   affects_right |-> right, starting_value |-> value]

new_basic(b) == Cell(TRUE, TRUE, TRUE, TRUE, b)

\* Index<Direction> for Cell
CellAffects(cell, dir) ==
  CASE dir = "Up" -> cell.affects_up
    [] dir = "Down" -> cell.affects_down
    [] dir = "Left" -> cell.affects_left
    [] dir = "Right" -> cell.affects_right

\* The positions of the grid in row-major order.
RowMajor(g) == [i \in 1..(g.width * g.height) |-> Position((i - 1) \div g.width, (i - 1) % g.width)]

\* to_matrix, first loop: the active positions, numbered in row-major order.
IndexedLocations(g) == SelectSeq(RowMajor(g), LAMBDA pos : IsSome(GridAt(g, pos)))

\* index_of.get(pos)
IndexOf(locations, pos) ==
  IF \E i \in 1..Len(locations) : locations[i] = pos
  THEN Some((CHOOSE i \in 1..Len(locations) : locations[i] = pos) - 1)
  ELSE None

\* to_matrix, second loop: the diagonal and, for each direction the cell
\* affects, the column of the active neighbour in that direction.
MatrixData(g, locations) ==
  [i \in 1..Len(locations) |->
    [j \in 1..Len(locations) |->
      IF i = j THEN On
      ELSE IF \E d \in 1..Len(Direction) :
                /\ IsSome(step_in_bounds(locations[i], g, Direction[d]))
                /\ IndexOf(locations, Unwrap(step_in_bounds(locations[i], g, Direction[d])))
                     = Some(j - 1)
                /\ CellAffects(Unwrap(GridAt(g, locations[i])), Direction[d])
           THEN On
      ELSE Off]]

\* BoardDescription::to_matrix: None when the expect on Matrix::new panics.
to_matrix(g) ==
  LET locations == IndexedLocations(g)
      count == Len(locations)
      almost_matrix == MatrixNew(MatrixData(g, locations), count, count)
      constant_row == [i \in 1..count |->
                         BitAdd(Unwrap(GridAt(g, locations[i])).starting_value, On)]
  IN IF IsSome(almost_matrix)
     THEN Some(<< augment_column(Unwrap(almost_matrix), constant_row)[2], locations >>)
     ELSE None

\* BoardDescription::assign_assignment: the starting values, then the value
\* of assignment at each indexed location; None when the lookup
\* assignment.0[i] panics.
assign_assignment(g, assignment, locations) ==
  IF \E k \in 1..Len(locations) : (k - 1) \notin DOMAIN assignment THEN None
  ELSE Some([g EXCEPT !.data =
         [j \in 1..Len(g.data) |->
            IF \E k \in 1..Len(locations) : RowMajor(g)[j] = locations[k]
            THEN Some(assignment[(CHOOSE k \in 1..Len(locations) :
                                    RowMajor(g)[j] = locations[k]) - 1])
            ELSE IF IsSome(g.data[j]) THEN Some(Unwrap(g.data[j]).starting_value)
            ELSE None]])

\* BoardAssignment::count_ones
count_ones(ba) == Cardinality({ j \in 1..Len(ba.data) : ba.data[j] = Some(On) })

(***************************************************************************)
(* equations.rs                                                            *)
(***************************************************************************)
\* HashMap: a function; the empty map is the function with the empty domain.
EmptyMap == << >>
Insert(map, k, v) == [x \in DOMAIN map \cup {k} |-> IF x = k THEN v ELSE map[x]]

Range(s) == { s[i] : i \in DOMAIN s }

RECURSIVE EqnsFrom(_, _, _, _)
EqnsFrom(m, free, row, acc) ==
  IF row >= m.rows THEN acc
  ELSE IF is_row_zero(m, row) THEN acc
  ELSE LET params == { col \in free : m.data[row + 1][col + 1] = On }
           constant_term == m.data[row + 1][m.cols]
           leading_col == Unwrap(get_leading_column(m.data[row + 1]))
       IN IF leading_col # m.cols - 1
          THEN EqnsFrom(m, free, row + 1,
                        Insert(acc, leading_col, [terms |-> params, constant |-> constant_term]))
          ELSE EqnsFrom(m, free, row + 1, acc)

\* Equations::new: the free variables and the equation of each leading column.
EquationsFreeVars(m) == Range(non_leading_columns(m)) \ {m.cols - 1}
EquationsEqns(m) == EqnsFrom(m, EquationsFreeVars(m), 0, EmptyMap)

RECURSIVE SumTerms(_, _, _)
SumTerms(terms, valuation, value) ==
  IF terms = {} THEN value
  ELSE LET term == CHOOSE t \in terms : TRUE
       IN SumTerms(terms \ {term}, valuation, BitAdd(value, valuation[term]))

\* backfeed without the constant term of each equation.
backfeed_without_constant(e, valuation) ==
  [var \in DOMAIN e \cup DOMAIN valuation |->
     IF var \in DOMAIN valuation THEN valuation[var]
     ELSE SumTerms(e[var].terms, valuation, Off)]

\* Assignment::as_bitstring: one character per index below the number of
\* entries, None at the first index the map does not hold.
as_bitstring(a) ==
  IF \E i \in 0..(Cardinality(DOMAIN a) - 1) : i \notin DOMAIN a THEN None
  ELSE Some([i \in 1..Cardinality(DOMAIN a) |-> IF a[i - 1] = Off THEN "0" ELSE "1"])

\* Equations::backfeed: each equation's value, then the valuation's own entries.
backfeed(e, valuation) ==
  [var \in DOMAIN e \cup DOMAIN valuation |->
     IF var \in DOMAIN valuation THEN valuation[var]
     ELSE BitAdd(SumTerms(e[var].terms, valuation, Off), e[var].constant)]

Min(S) == CHOOSE x \in S : \A y \in S : x <= y

RECURSIVE SortedVars(_)
SortedVars(S) == IF S = {} THEN << >> ELSE << Min(S) >> \o SortedVars(S \ {Min(S)})

\* The flat_map with both extensions inserting Off.
ExtendAllOff(assignments, var) ==
  [i \in 1..(2 * Len(assignments)) |-> Insert(assignments[(i + 1) \div 2], var, Off)]

\* The flat_map of enumerate_all_assignments: each assignment, then its two extensions.
ExtendAll(assignments, var) ==
  [i \in 1..(2 * Len(assignments)) |->
     Insert(assignments[(i + 1) \div 2], var, IF i % 2 = 1 THEN Off ELSE On)]

RECURSIVE ExtendWith(_, _)
ExtendWith(assignments, remaining_vars) ==
  IF remaining_vars = << >> THEN assignments
  ELSE ExtendWith(ExtendAll(assignments, Head(remaining_vars)), Tail(remaining_vars))

\* The enumeration started from the Off assignment of the first variable only.
enumerate_all_assignments_from_off(vs) ==
  LET sorted_vars == SortedVars(vs)
  IN IF sorted_vars = << >> THEN << >>
     ELSE ExtendWith(<< Insert(EmptyMap, Head(sorted_vars), Off) >>, Tail(sorted_vars))

enumerate_all_assignments(vs) ==
  LET sorted_vars == SortedVars(vs)
  IN IF sorted_vars = << >> THEN << >>
     ELSE ExtendWith(<< Insert(EmptyMap, Head(sorted_vars), Off),
                        Insert(EmptyMap, Head(sorted_vars), On) >>,
                     Tail(sorted_vars))

\* The free assignments returned as they are, without backfeed.
enumerate_all_results_unfed(free, e) ==
  IF Len(enumerate_all_assignments(free)) > 0 THEN enumerate_all_assignments(free)
  ELSE << EmptyMap >>

enumerate_all_results(free, e) ==
  LET assignments == enumerate_all_assignments(free)
  IN IF Len(assignments) > 0
     THEN [i \in 1..Len(assignments) |-> backfeed(e, assignments[i])]
     ELSE << backfeed(e, EmptyMap) >>

(***************************************************************************)
(* Inputs                                                                  *)
(***************************************************************************)
BitRows(cols) == [1..cols -> Bit]
Matrices(rows, cols) == [1..rows -> BitRows(cols)]

NoCell == [width |-> 0, height |-> 0, row |-> 0, col |-> 0]

Args(data, rows, cols) == [data |-> data, rows |-> rows, cols |-> cols]

\* Well-shaped arguments of Matrix::new, every shape up to MaxRows x MaxCols.
ShapedArgs(a) ==
  \E r \in 1..MaxRows, c \in 1..MaxCols : \E d \in Matrices(r, c) : a = Args(d, r, c)

\* Arguments of Matrix::new of any shape: data of up to MaxRagged rows of up to
\* MaxRagged bits each, with rows and cols that need not agree with it.
RaggedRows == UNION { BitRows(c) : c \in 0..MaxRagged }
RaggedArgs(a) ==
  \E n \in 0..MaxRagged, r \in 0..MaxRagged, c \in 0..MaxRagged :
    \E d \in [1..n -> RaggedRows] : a = Args(d, r, c)

Grid(width, height, cells) == [width |-> width, height |-> height, data |-> cells]

\* The 3 x 3 board with every cell unlit and no modifier.
PlusBoard == Grid(3, 3, [i \in 1..9 |-> Some(new_basic(Off))])

\* The matrix in the comment at the end of main.
BaseMatrix ==
  << << 1, 1, 0, 0, 0, 0, 1 >>,
     << 1, 1, 1, 1, 0, 0, 0 >>,
     << 0, 1, 1, 0, 1, 0, 1 >>,
     << 0, 1, 0, 1, 1, 0, 0 >>,
     << 0, 0, 1, 1, 1, 1, 0 >>,
     << 0, 0, 0, 0, 1, 1, 1 >> >>

MatrixArgs(m) == Args(m.data, m.rows, m.cols)

ScenarioArgs ==
  { MatrixArgs(Unwrap(to_matrix(PlusBoard))[1]),
    Args(BaseMatrix, 6, 7) }

\* Boards as parse_board builds them: each position empty, unlit or lit.
ParsedCells == { None, Some(new_basic(Off)), Some(new_basic(On)) }
ParsedBoards(b) ==
  \E w \in 1..MaxCells, h \in 1..MaxCells :
    /\ w * h <= MaxCells
    /\ \E cells \in [1..(w * h) -> ParsedCells] : b = Some(Grid(w, h, cells))

Modifiers == { " ", "H", "V" }

Init ==
  /\ pc = "new"
  /\ \/ ShapedArgs(args)
     \/ RaggedArgs(args)
     \/ args \in ScenarioArgs
  /\ matrix = None
  /\ current_cell = NoCell
  /\ iterations = 0
  /\ passes = 0
  /\ original = None
  /\ reduced = None
  /\ free_vars = {}
  /\ eqns = << >>
  /\ results = << >>
  /\ board = None
  /\ indexed_locations = << >>
  /\ presort = None
  /\ augmented = None
  /\ shown = None

\* eliminate() on every matrix within the bounds and on the matrix in the
\* comment at the end of main.
InitElimination ==
  /\ pc = "new"
  /\ \/ ShapedArgs(args)
     \/ args = Args(BaseMatrix, 6, 7)
  /\ matrix = None
  /\ current_cell = NoCell
  /\ iterations = 0
  /\ passes = 0
  /\ original = None
  /\ reduced = None
  /\ free_vars = {}
  /\ eqns = << >>
  /\ results = << >>
  /\ board = None
  /\ indexed_locations = << >>
  /\ presort = None
  /\ augmented = None
  /\ shown = None

NoArgs == Args(<< >>, 0, 0)

InitBoard ==
  /\ pc = "parsed"
  /\ ParsedBoards(board)
  /\ args = NoArgs
  /\ matrix = None
  /\ current_cell = NoCell
  /\ iterations = 0
  /\ passes = 0
  /\ original = None
  /\ reduced = None
  /\ free_vars = {}
  /\ eqns = << >>
  /\ results = << >>
  /\ indexed_locations = << >>
  /\ presort = None
  /\ augmented = None
  /\ shown = None

(***************************************************************************)
(* Actions                                                                 *)
(***************************************************************************)
\* Matrix::new(data, rows, cols)
New ==
  /\ pc = "new"
  /\ matrix' = MatrixNew(args.data, args.rows, args.cols)
  /\ pc' = IF IsSome(matrix') THEN "built" ELSE "rejected"
  /\ original' = matrix'
  /\ UNCHANGED << args, current_cell, iterations, passes, reduced,
                  free_vars, eqns, results, board, indexed_locations >>
  /\ UNCHANGED << presort, calls >>

\* Matrix::eliminate, up to the loop: the first sort and the cursor at (0, 0).
BeginEliminate ==
  /\ presort' = matrix
  /\ \E m \in sort_rows_by_leading_column(Unwrap(matrix)) :
       /\ matrix' = Some(m)
       /\ current_cell' = StartPosition(m)
  /\ iterations' = 0
  /\ pc' = "loop"
  /\ UNCHANGED << args, passes, original, reduced, free_vars, eqns, results, board, indexed_locations >>
  /\ UNCHANGED calls

\* eliminate() called on the matrix as built.
EliminateStart ==
  /\ pc = "built"
  /\ BeginEliminate

\* eliminate() called a second time, on the matrix the first call left.
EliminateAgain ==
  /\ pc = "eliminated"
  /\ passes = 1
  /\ BeginEliminate

\* One iteration of the loop of eliminate with the cursor on an Off cell.
EliminateOff ==
  /\ pc = "loop"
  /\ get_at(Unwrap(matrix), current_cell) = Off
  /\ iterations' = iterations + 1
  /\ current_cell' = step_right(current_cell)[2]
  /\ IF step_right(current_cell)[1]
     THEN /\ pc' = "loop"
          /\ UNCHANGED << passes, reduced >>
     ELSE /\ pc' = "eliminated"
          /\ passes' = passes + 1
          /\ reduced' = IF passes = 0 THEN matrix ELSE reduced
  /\ UNCHANGED << args, matrix, original, free_vars, eqns, results, board, indexed_locations >>
  /\ UNCHANGED << presort, calls >>

\* One iteration of the loop of eliminate with the cursor on an On cell.
EliminateOn ==
  /\ pc = "loop"
  /\ get_at(Unwrap(matrix), current_cell) = On
  /\ iterations' = iterations + 1
  /\ presort' = Some(decimate_column_with_row(Unwrap(matrix), current_cell.row,
                                                current_cell.col))
  /\ \E m \in sort_rows_by_leading_column(Unwrap(presort')) :
       matrix' = Some(m)
  /\ current_cell' = step_down(current_cell)[2]
  /\ IF step_down(current_cell)[1]
     THEN /\ pc' = "loop"
          /\ UNCHANGED << passes, reduced >>
     ELSE /\ pc' = "eliminated"
          /\ passes' = passes + 1
          /\ reduced' = IF passes = 0 THEN matrix' ELSE reduced
  /\ UNCHANGED << args, original, free_vars, eqns, results, board, indexed_locations >>
  /\ UNCHANGED calls

\* Equations::new(matrix)
EquationsNew ==
  /\ pc = "eliminated"
  /\ free_vars' = EquationsFreeVars(Unwrap(matrix))
  /\ eqns' = EquationsEqns(Unwrap(matrix))
  /\ pc' = "equations"
  /\ UNCHANGED << args, matrix, current_cell, iterations, passes, original, reduced,
                  results, board, indexed_locations >>
  /\ UNCHANGED << presort, calls >>

\* Equations::enumerate_all_results()
EnumerateAllResults ==
  /\ pc = "equations"
  /\ results' = enumerate_all_results(free_vars, eqns)
  /\ pc' = "enumerated"
  /\ UNCHANGED << args, matrix, current_cell, iterations, passes, original, reduced,
                  free_vars, eqns, board, indexed_locations >>
  /\ UNCHANGED << presort, calls >>

\* main, the modifier grid: H switches a cell's up and down effect off, V its
\* left and right effect; a modifier on an empty position ends the program.
ApplyModifier(cell, ch) ==
  IF ch = "H" THEN [cell EXCEPT !.affects_up = FALSE, !.affects_down = FALSE]
  ELSE IF ch = "V" THEN [cell EXCEPT !.affects_left = FALSE, !.affects_right = FALSE]
  ELSE cell

ReadModifiers ==
  /\ pc = "parsed"
  /\ \E has_modifiers \in BOOLEAN :
       IF has_modifiers
       THEN \E mods \in [1..Len(Unwrap(board).data) -> Modifiers] :
              IF \E i \in 1..Len(mods) : mods[i] # " " /\ Unwrap(board).data[i] = None
              THEN /\ pc' = "aborted"
                   /\ UNCHANGED board
              ELSE /\ pc' = "board"
                   /\ board' = Some([Unwrap(board) EXCEPT !.data =
                        [i \in 1..Len(mods) |->
                           IF IsSome(Unwrap(board).data[i])
                           THEN Some(ApplyModifier(Unwrap(Unwrap(board).data[i]), mods[i]))
                           ELSE None]])
       ELSE /\ pc' = "board"
            /\ UNCHANGED board
  /\ UNCHANGED << args, matrix, current_cell, iterations, passes, original, reduced,
                  free_vars, eqns, results, indexed_locations >>
  /\ UNCHANGED << presort, calls >>

\* main: board.to_matrix()
ToMatrix ==
  /\ pc = "board"
  /\ IF IsSome(to_matrix(Unwrap(board)))
     THEN /\ matrix' = Some(Unwrap(to_matrix(Unwrap(board)))[1])
          /\ indexed_locations' = Unwrap(to_matrix(Unwrap(board)))[2]
          /\ pc' = "built"
     ELSE /\ pc' = "panicked"
          /\ UNCHANGED << matrix, indexed_locations >>
  /\ original' = matrix'
  /\ UNCHANGED << args, current_cell, iterations, passes, reduced,
                  free_vars, eqns, results, board >>
  /\ UNCHANGED << presort, calls >>

\* Matrix::augment_column(col) on the matrix as built.
AugmentColumn ==
  /\ pc = "built"
  /\ \E col \in UNION { BitRows(n) : n \in 0..(MaxRows + 1) } :
       /\ matrix' = Some(augment_column(Unwrap(matrix), col)[2])
       /\ augmented' = Some([col |-> col,
                             returned |-> augment_column(Unwrap(matrix), col)[1],
                             before |-> Unwrap(matrix)])
  /\ pc' = "augmented"
  /\ UNCHANGED << args, current_cell, iterations, passes, original, reduced,
                  free_vars, eqns, results, board, indexed_locations, presort, shown >>

\* main: the report of the number of solutions.
Report ==
  /\ pc = "enumerated"
  /\ pc' = IF Len(results) # 0 THEN "ask" ELSE "no_solutions"
  /\ UNCHANGED << args, matrix, current_cell, iterations, passes, original, reduced,
                  free_vars, eqns, results, board, indexed_locations, presort, calls >>

AssignedBoard(i) == assign_assignment(Unwrap(board), results[i], indexed_locations)

\* main, "all": every solution with its number, count + 1.
ShowAll ==
  /\ pc = "ask"
  /\ IF \E i \in 1..Len(results) : AssignedBoard(i) = None
     THEN pc' = "panicked" /\ UNCHANGED shown
     ELSE /\ pc' = "shown"
          /\ shown' = Some([mode |-> "all",
                            printed |-> [i \in 1..Len(results) |->
                                           [number |-> (i - 1) + 1,
                                            board |-> Unwrap(AssignedBoard(i))]]])
  /\ UNCHANGED << args, matrix, current_cell, iterations, passes, original, reduced,
                  free_vars, eqns, results, board, indexed_locations, presort, augmented >>

\* The min loop with <= in place of <: a later solution with as many presses
\* replaces the earlier one.
RECURSIVE MinLoopLast(_, _)
MinLoopLast(count, min_moves_board_count) ==
  IF count >= Len(results) THEN min_moves_board_count
  ELSE LET assigned_board == Unwrap(AssignedBoard(count + 1))
           found == [moves |-> count_ones(assigned_board), board |-> assigned_board,
                     count |-> count]
       IN IF IsSome(min_moves_board_count)
          THEN IF count_ones(assigned_board) <= Unwrap(min_moves_board_count).moves
               THEN MinLoopLast(count + 1, Some(found))
               ELSE MinLoopLast(count + 1, min_moves_board_count)
          ELSE MinLoopLast(count + 1, Some(found))

\* main, "min": the loop over results.into_iter().enumerate().
RECURSIVE MinLoop(_, _)
MinLoop(count, min_moves_board_count) ==
  IF count >= Len(results) THEN min_moves_board_count
  ELSE LET assigned_board == Unwrap(AssignedBoard(count + 1))
           found == [moves |-> count_ones(assigned_board), board |-> assigned_board,
                     count |-> count]
       IN IF IsSome(min_moves_board_count)
          THEN IF count_ones(assigned_board) < Unwrap(min_moves_board_count).moves
               THEN MinLoop(count + 1, Some(found))
               ELSE MinLoop(count + 1, min_moves_board_count)
          ELSE MinLoop(count + 1, Some(found))

\* main, "min": the solution printed, with the number and the presses printed.
ShowMin ==
  /\ pc = "ask"
  /\ IF \E i \in 1..Len(results) : AssignedBoard(i) = None
     THEN pc' = "panicked" /\ UNCHANGED shown
     ELSE IF IsSome(MinLoop(0, None))
     THEN /\ pc' = "shown"
          /\ shown' = Some([mode |-> "min",
                            number |-> Unwrap(MinLoop(0, None)).count,
                            moves |-> Unwrap(MinLoop(0, None)).moves,
                            board |-> Unwrap(MinLoop(0, None)).board])
     ELSE pc' = "not_found" /\ UNCHANGED shown
  /\ UNCHANGED << args, matrix, current_cell, iterations, passes, original, reduced,
                  free_vars, eqns, results, board, indexed_locations, presort, augmented >>

Next == New \/ EliminateStart \/ EliminateAgain \/ EliminateOff \/ EliminateOn
          \/ EquationsNew \/ EnumerateAllResults

NextBoard == ReadModifiers \/ ToMatrix \/ EliminateStart \/ EliminateOff \/ EliminateOn
               \/ EquationsNew \/ EnumerateAllResults \/ Report \/ ShowAll \/ ShowMin

Spec == Init /\ [][Next]_vars

SpecBoard == InitBoard /\ [][NextBoard]_vars

NextAugment == New \/ AugmentColumn

SpecElimination == InitElimination /\ [][Next]_vars
SpecAugment == Init /\ [][NextAugment]_vars

(***************************************************************************)
(* Properties                                                              *)
(***************************************************************************)
\* The variable indices of the system of an augmented matrix: 0 .. cols - 2.
Variables(m) == 0..(m.cols - 2)

\* x, defined on every variable, satisfies row `row` of the augmented matrix
\* m: the XOR of x over the On coefficient columns is the constant entry.
SatisfiesRow(m, row, x) ==
  /\ Variables(m) \subseteq DOMAIN x
  /\ Cardinality({ j \in Variables(m) : m.data[row][j + 1] = On /\ x[j] = On }) % 2
       = m.data[row][m.cols]

Satisfies(m, x) == \A row \in 1..m.rows : SatisfiesRow(m, row, x)

\* A row whose only On entry is in the constant column.
AbsurdRow(m, row) == get_leading_column(m.data[row]) = Some(m.cols - 1)

NonZeroRows(m) == { row \in 1..m.rows : IsSome(get_leading_column(m.data[row])) }

Lead(m, row) == Unwrap(get_leading_column(m.data[row]))

IsRREF(m) ==
  /\ \A r \in NonZeroRows(m) : \A q \in 1..m.rows :
       q # r => m.data[q][Lead(m, r) + 1] = Off
  /\ \A r, q \in NonZeroRows(m) : r # q => Lead(m, r) # Lead(m, q)
  /\ \A r, q \in NonZeroRows(m) : r < q => Lead(m, r) < Lead(m, q)
  /\ \A r \in NonZeroRows(m) : \A q \in 1..m.rows :
       q \notin NonZeroRows(m) => r < q

Enumerated == pc = "enumerated"

\* C2 (backfeed correctness): every assignment returned by
\* enumerate_all_results assigns every variable and satisfies every row of the
\* matrix as it was before eliminate.
C2_BackfeedCorrect ==
  Enumerated =>
    \A i \in 1..Len(results) : Satisfies(Unwrap(original), results[i])

\* C3 (infeasible systems yield zero solutions): when the eliminated matrix has
\* a row whose only On entry is in the constant column, enumerate_all_results
\* returns the empty list.
C3_InfeasibleYieldsNone ==
  (Enumerated /\ \E row \in 1..Unwrap(matrix).rows : AbsurdRow(Unwrap(matrix), row))
    => Len(results) = 0

\* C4 (RREF post-condition): when eliminate has returned, each leading entry is
\* the only On entry of its column, non-zero rows have distinct, strictly
\* increasing leading columns, and the all-Off rows come last.
C4_EliminateRREF == pc = "eliminated" => IsRREF(Unwrap(matrix))

C4_Witness ==
  /\ pc = "eliminated"
  /\ passes = 1
  /\ Cardinality(NonZeroRows(Unwrap(matrix))) >= 2
  /\ Range(Unwrap(matrix).data) # Range(Unwrap(original).data)
  /\ \E r \in 2..Unwrap(matrix).rows : Unwrap(matrix).data[r] # Unwrap(original).data[r]
                                       /\ Unwrap(matrix).data[1] # Unwrap(original).data[1]

\* C5 (free/dependent partition): after Equations::new the free variables and
\* the keys of the equations are disjoint and together are 0 .. n - 1.
C5_Partition ==
  pc \in {"equations", "enumerated"} =>
    /\ free_vars \cap DOMAIN eqns = {}
    /\ free_vars \cup DOMAIN eqns = Variables(Unwrap(matrix))

Restrict(f, S) == [x \in S |-> f[x]]

RECURSIVE Pow2(_)
Pow2(k) == IF k = 0 THEN 1 ELSE 2 * Pow2(k - 1)

\* C6 (enumeration completeness): with k free variables enumerate_all_results
\* returns 2^k assignments (one when k = 0), pairwise different, and every
\* valuation of the free variables is the restriction of exactly one of them.
C6_EnumerationComplete ==
  Enumerated =>
    /\ Len(results) = Pow2(Cardinality(free_vars))
    /\ \A i, j \in 1..Len(results) : i # j => results[i] # results[j]
    /\ \A i \in 1..Len(results) : free_vars \subseteq DOMAIN results[i]
    /\ \A v \in [free_vars -> Bit] :
         Cardinality({ i \in 1..Len(results) : Restrict(results[i], free_vars) = v }) = 1

C6_Witness == Enumerated /\ Cardinality(free_vars) >= 2 /\ Len(results) = 4

\* C7 (idempotence): a second eliminate on the eliminated matrix leaves the
\* same rows in the same order.
C7_EliminateIdempotent ==
  (pc = "eliminated" /\ passes = 2) => matrix = reduced

C7_Witness ==
  /\ pc = "eliminated"
  /\ passes = 2
  /\ Unwrap(reduced).data # Unwrap(original).data
  /\ Cardinality(NonZeroRows(Unwrap(matrix))) >= 2

\* Pressing the cell numbered q toggles the cell numbered p: p is q itself or
\* the active neighbour of q in a direction that q affects.
Toggles(g, locations, q, p) ==
  \/ q = p
  \/ \E d \in 1..Len(Direction) :
       /\ step_in_bounds(locations[q], g, Direction[d]) = Some(locations[p])
       /\ CellAffects(Unwrap(GridAt(g, locations[q])), Direction[d])

\* Pressing exactly the cells whose variable is On in assignment leaves every
\* active cell lit.
Solves(g, locations, assignment) ==
  /\ \A p \in 1..Len(locations) : (p - 1) \in DOMAIN assignment
  /\ \A p \in 1..Len(locations) :
       LET presses == { q \in 1..Len(locations) :
                          assignment[q - 1] = On /\ Toggles(g, locations, q, p) }
           start == Unwrap(GridAt(g, locations[p])).starting_value
       IN (start + Cardinality(presses)) % 2 = On

\* C1 (returned assignments solve the puzzle): for every board, every
\* assignment enumerate_all_results returns for the eliminated matrix of
\* to_matrix, pressed on the board, leaves every active cell lit.
C1_AssignmentsSolveBoard ==
  (Enumerated /\ IsSome(board)) =>
    \A i \in 1..Len(results) : Solves(Unwrap(board), indexed_locations, results[i])

\* The coefficient part of a square system has only the zero vector in its kernel.
IsSquareSystem(m) == m.rows = m.cols - 1

Homogeneous(m, x) ==
  \A row \in 1..m.rows :
    Cardinality({ j \in Variables(m) : m.data[row][j + 1] = On /\ x[j] = On }) % 2 = 0

Invertible(m) ==
  /\ IsSquareSystem(m)
  /\ \A x \in [Variables(m) -> Bit] : Homogeneous(m, x) => \A j \in Variables(m) : x[j] = Off

PlusArgs == MatrixArgs(Unwrap(to_matrix(PlusBoard))[1])

\* C8 (unique solution): when the coefficient matrix of an n x (n + 1) system is
\* invertible, elimination leaves n non-zero rows, there is no free variable,
\* and the one assignment returned is the only solution of the system; the
\* three named instances give x0 = On, (x0, x1) = (On, Off) and rank 9.
C8_UniqueSolution ==
  (Enumerated /\ Invertible(Unwrap(original))) =>
    /\ non_zero_row_count(Unwrap(matrix)) = Unwrap(original).rows
    /\ Cardinality(NonZeroRows(Unwrap(matrix))) = Unwrap(original).rows
    /\ free_vars = {}
    /\ Len(results) = 1
    /\ \A x \in [Variables(Unwrap(original)) -> Bit] :
         Satisfies(Unwrap(original), x) <=> x = results[1]
    /\ args.data = << << On, On >> >> => results = << (0 :> On) >>
    /\ args.data = << << On, Off, On >>, << Off, On, Off >> >>
         => results = << (0 :> On @@ 1 :> Off) >>
    /\ args = PlusArgs => non_zero_row_count(Unwrap(matrix)) = 9

C8_Witness ==
  /\ Enumerated
  /\ args = PlusArgs
  /\ Invertible(Unwrap(original))
  /\ Len(results) = 1

InsideMatrix(m, pos) == pos.row < m.rows /\ pos.col < m.cols

C9_Bounded ==
  pc \in {"loop", "eliminated"} =>
    /\ InsideMatrix(Unwrap(matrix), current_cell)
    /\ iterations <= Unwrap(matrix).rows + Unwrap(matrix).cols - 1
    /\ pc = "loop" => iterations = current_cell.row + current_cell.col

C9_Advance ==
  (pc = "loop" /\ pc' = "loop") =>
    IF get_at(Unwrap(matrix), current_cell) = Off
    THEN current_cell' = [current_cell EXCEPT !.col = current_cell.col + 1]
    ELSE current_cell' = [current_cell EXCEPT !.row = current_cell.row + 1]

\* C9 (termination of eliminate): every iteration that does not leave the loop
\* moves the cursor one step right (cell Off) or one step down (cell On), the
\* cursor stays inside the matrix, and the body runs at most rows + cols - 1
\* times.
C9_EliminateTerminates == [] C9_Bounded /\ [][C9_Advance]_vars

C9_Witness ==
  /\ pc = "eliminated"
  /\ Unwrap(matrix).rows >= 2
  /\ Unwrap(matrix).cols >= 2
  /\ iterations = Unwrap(matrix).rows + Unwrap(matrix).cols - 1

BadShape(a) ==
  \/ a.rows = 0
  \/ a.cols = 0
  \/ Len(a.data) # a.rows
  \/ \E i \in 1..Len(a.data) : Len(a.data[i]) # a.cols

\* C10 (Matrix::new validation): Matrix::new returns no matrix exactly when
\* rows = 0, cols = 0, data has not rows entries or some row has not cols
\* entries; otherwise the matrix holds data, rows and cols unchanged.
C10_NewValidates ==
  pc \in {"built", "rejected"} =>
    /\ (matrix = None) <=> BadShape(args)
    /\ (pc = "rejected") <=> BadShape(args)
    /\ ~BadShape(args) =>
         matrix = Some([rows |-> args.rows, cols |-> args.cols, data |-> args.data])

C10_Witness ==
  /\ pc = "rejected"
  /\ matrix = None
  /\ args.rows > 0
  /\ args.cols > 0
  /\ Len(args.data) = args.rows

\* C11 (augment_column): with len(col) # rows the call returns false and leaves
\* the matrix as it was; with len(col) = rows it returns true, cols grows by
\* one, row i gains col[i] as its last entry, the entries it had are unchanged,
\* and every row has cols entries.
C11_AugmentColumn ==
  pc = "augmented" =>
    LET a == Unwrap(augmented)
        after == Unwrap(matrix)
    IN IF Len(a.col) # a.before.rows
       THEN ~a.returned /\ after = a.before
       ELSE /\ a.returned
            /\ after.rows = a.before.rows
            /\ after.cols = a.before.cols + 1
            /\ Len(after.data) = after.rows
            /\ \A i \in 1..after.rows :
                 /\ Len(after.data[i]) = after.cols
                 /\ after.data[i][after.cols] = a.col[i]
                 /\ SubSeq(after.data[i], 1, a.before.cols) = a.before.data[i]

C11_Witness ==
  /\ pc = "augmented"
  /\ Unwrap(augmented).returned
  /\ Unwrap(augmented).before.rows >= 2
  /\ Unwrap(matrix).cols = Unwrap(augmented).before.cols + 1
  /\ \E i \in 1..Len(Unwrap(augmented).col) : Unwrap(augmented).col[i] = On

Smaller(a, b) == IF a <= b THEN a ELSE b

\* C12 (rank invariant): after eliminate, non_zero_row_count() is the number of
\* rows with at least one On entry and is at most min(rows, cols).
C12_RankInvariant ==
  pc = "eliminated" =>
    /\ non_zero_row_count(Unwrap(matrix)) = Cardinality(NonZeroRows(Unwrap(matrix)))
    /\ non_zero_row_count(Unwrap(matrix)) <= Smaller(Unwrap(matrix).rows, Unwrap(matrix).cols)

C12_Witness ==
  /\ pc = "eliminated"
  /\ non_zero_row_count(Unwrap(matrix)) >= 1
  /\ non_zero_row_count(Unwrap(matrix)) < Unwrap(matrix).rows
  /\ is_row_zero(Unwrap(original), 0)

\* The number of On-valued press variables of an assignment.
Presses(assignment) == Cardinality({ v \in DOMAIN assignment : assignment[v] = On })

ShownMin == pc = "shown" /\ Unwrap(shown).mode = "min"

\* C13 (minimum-presses selection): in min mode the solution presented has the
\* fewest On-valued press variables of all returned assignments, and among the
\* assignments with that number it is the first in enumeration order.
C13_MinSelection ==
  ShownMin =>
    \E k \in 1..Len(results) :
      /\ \A j \in 1..Len(results) : Presses(results[k]) <= Presses(results[j])
      /\ \A j \in 1..(k - 1) : Presses(results[k]) < Presses(results[j])
      /\ Unwrap(shown).board = Unwrap(AssignedBoard(k))
      /\ Unwrap(shown).moves = Presses(results[k])

C13_Witness ==
  /\ ShownMin
  /\ \E j, k \in 1..Len(results) :
       /\ j < k
       /\ results[j] # results[k]
       /\ Presses(results[j]) = Presses(results[k])
       /\ Unwrap(shown).moves = Presses(results[j])
       /\ Unwrap(shown).board = Unwrap(AssignedBoard(j))

\* C14 (full-assignment domain): for the matrix of a board with n active cells,
\* once eliminated, every returned assignment assigns exactly the variables
\* 0..n-1, as_bitstring gives a string of length n, and every lookup of
\* assign_assignment succeeds.
C14_FullDomain ==
  Enumerated /\ board # None =>
    \A i \in 1..Len(results) :
      /\ DOMAIN results[i] = 0..(Len(indexed_locations) - 1)
      /\ IsSome(as_bitstring(results[i]))
      /\ Len(Unwrap(as_bitstring(results[i]))) = Len(indexed_locations)
      /\ IsSome(AssignedBoard(i))

C14_Witness ==
  /\ Enumerated /\ board # None
  /\ Len(indexed_locations) >= 2
  /\ free_vars # {}
  /\ DOMAIN eqns # {}
  /\ \E i \in 1..Len(results) :
       /\ Unwrap(as_bitstring(results[i])) \in { << "0", "1" >>, << "1", "0", "1" >>, << "1", "0" >> }
       /\ IsSome(AssignedBoard(i))

\* The columns among the variables where no row of m has its leading On.
ColumnsWithoutLead(m) ==
  { c \in Variables(m) : \A row \in NonZeroRows(m) : Lead(m, row) # c }

\* C15 (non-leading columns): on an eliminated matrix of any accepted shape,
\* non_leading_columns without the last column is exactly the set of columns
\* in 0..cols-2 that are no row's leading column.
C15_NonLeadingColumns ==
  pc = "eliminated" /\ IsRREF(Unwrap(matrix)) =>
    Range(non_leading_columns(Unwrap(matrix))) \ {Unwrap(matrix).cols - 1}
      = ColumnsWithoutLead(Unwrap(matrix))

\* The leading column of a row of m, m.cols for a row with no On entry.
LeadOrCols(m, row) ==
  IF \E c \in 1..m.cols : m.data[row][c] = On
  THEN (CHOOSE c \in 1..m.cols :
          m.data[row][c] = On /\ \A d \in 1..(c - 1) : m.data[row][d] = Off) - 1
  ELSE m.cols

\* The rows of m whose leading column is k or more, by leading column, the
\* rows with the same leading column in the order they have in m.
RECURSIVE StableFrom(_, _)
StableFrom(m, k) ==
  IF k > m.cols THEN << >>
  ELSE SelectSeq(m.data, LAMBDA r : \E row \in 1..m.rows :
                                      m.data[row] = r /\ LeadOrCols(m, row) = k)
       \o StableFrom(m, k + 1)

\* A sort has run on presort and matrix is what it left.
Sorted == pc \in {"loop", "eliminated"} /\ IsSome(presort) /\ IsSome(matrix)

\* C16 as stated (stable sort): the rows after sort_rows_by_leading_column are
\* the rows before it in ascending leading-column order, all-Off rows last, and
\* rows with the same leading column in the relative order they had.
C16_StableSort ==
  Sorted => Unwrap(matrix).data = StableFrom(Unwrap(presort), 0)

Occurrences(m, r) == Cardinality({ row \in 1..m.rows : m.data[row] = r })

\* C16 as amended: the rows after the sort are a permutation of the rows before
\* it, in ascending leading-column order with every all-Off row after every
\* non-zero row; nothing is said of rows with the same leading column.
C16_SortedPermutation ==
  Sorted =>
    LET m == Unwrap(matrix)
        before == Unwrap(presort)
    IN /\ m.rows = before.rows /\ m.cols = before.cols
       /\ \A r \in Range(m.data) \cup Range(before.data) :
            Occurrences(m, r) = Occurrences(before, r)
       /\ \A i \in 1..(m.rows - 1) : LeadOrCols(m, i) <= LeadOrCols(m, i + 1)
       /\ \A i \in 1..(m.rows - 1) :
            is_row_zero(m, i - 1) => is_row_zero(m, i)

C16_Witness ==
  /\ Sorted
  /\ Unwrap(matrix).data # Unwrap(presort).data
  /\ Unwrap(matrix).data # StableFrom(Unwrap(presort), 0)
  /\ Unwrap(matrix).rows >= 2

\* The cursor of eliminate is on an On cell.
OnPivot ==
  /\ pc = "loop"
  /\ InsideMatrix(Unwrap(matrix), current_cell)
  /\ get_at(Unwrap(matrix), current_cell) = On

\* Row r of the cursor (r, c) leads at c and the rows above lead at pairwise
\* different columns left of c.
C17_PivotLeads ==
  OnPivot =>
    LET m == Unwrap(matrix)
        r == current_cell.row
        c == current_cell.col
    IN /\ LeadOrCols(m, r + 1) = c
       /\ \A i \in 1..r : LeadOrCols(m, i) < c
       /\ \A i, j \in 1..r : i # j => LeadOrCols(m, i) # LeadOrCols(m, j)

\* The iteration from an On cursor cell leaves the pivot row at its index,
\* every other row Off in the pivot column, and an Off cell under the cursor
\* when the step down succeeds.
C17_PivotStays ==
  OnPivot =>
    LET r == current_cell.row
        c == current_cell.col
    IN /\ Unwrap(matrix').data[r + 1] = Unwrap(matrix).data[r + 1]
       /\ \A i \in 1..Unwrap(matrix').rows :
            i # r + 1 => Unwrap(matrix').data[i][c + 1] = Off
       /\ pc' = "loop" =>
            /\ current_cell'.row = r + 1 /\ current_cell'.col = c
            /\ get_at(Unwrap(matrix'), current_cell') = Off

\* C17 (pivot stays in place): each time the cursor cell (r, c) of eliminate is
\* On, row r leads at c and rows 0..r-1 lead at pairwise distinct columns
\* smaller than c; after the decimation and the sort the pivot row is still at
\* index r, every other row is Off in column c, and after a successful step
\* down the cell under the cursor is Off.
C17_PivotInPlace == [] C17_PivotLeads /\ [][C17_PivotStays]_vars

C17_Witness ==
  /\ pc = "loop"
  /\ iterations >= 1
  /\ current_cell.row >= 1
  /\ IsSome(presort)
  /\ Unwrap(presort).data # Unwrap(matrix).data
  /\ get_at(Unwrap(matrix), current_cell) = Off
  /\ get_at(Unwrap(original), current_cell) = On
  /\ is_row_zero(Unwrap(matrix), Unwrap(matrix).rows - 1)

\* The number of active cells of the board read.
ActiveCells(b) == Cardinality({ j \in 1..Len(b.data) : IsSome(b.data[j]) })

\* C18 (no panic on shape): for every board parse_board accepts, boards with no
\* active cell included, to_matrix returns an n x (n+1) matrix, n the number of
\* active cells, and does not panic.
C18_NoPanicOnShape ==
  /\ pc # "panicked"
  /\ pc = "built" =>
       /\ Unwrap(matrix).rows = ActiveCells(Unwrap(board))
       /\ Unwrap(matrix).cols = ActiveCells(Unwrap(board)) + 1

Valuations(m) == [Variables(m) -> Bit]

\* a and b have the same solutions.
SameSolutions(a, b) ==
  /\ Variables(a) = Variables(b)
  /\ \A x \in Valuations(a) : Satisfies(a, x) <=> Satisfies(b, x)

\* C19 (elimination preserves the solution set): at every step of eliminate,
\* after each sort and each row addition, the valuations satisfying every row
\* are those satisfying every row of the matrix eliminate was called on.
C19_SolutionsPreserved ==
  pc \in {"loop", "eliminated"} =>
    /\ SameSolutions(Unwrap(matrix), Unwrap(original))
    /\ SameSolutions(Unwrap(presort), Unwrap(original))
    /\ OnPivot =>
         \A target \in 0..(Unwrap(matrix).rows - 1) :
           target # current_cell.row
             /\ Unwrap(matrix).data[target + 1][current_cell.col + 1] = On
           => SameSolutions(elementary_add_row_to(Unwrap(matrix), current_cell.row, target),
                            Unwrap(original))

C19_Witness ==
  /\ pc = "eliminated"
  /\ Unwrap(matrix).rows >= 2
  /\ Range(Unwrap(matrix).data) # Range(Unwrap(original).data)
  /\ Cardinality({ x \in Valuations(Unwrap(original)) : Satisfies(Unwrap(original), x) }) = 2
  /\ \A x \in Valuations(Unwrap(original)) :
       Satisfies(Unwrap(matrix), x) <=> Satisfies(Unwrap(original), x)

Solutions(m) == { x \in Valuations(m) : Satisfies(m, x) }

\* C20 (exact solution set): for an n x (n+1) system with at least one
\* solution, the assignments returned after eliminate, Equations::new and
\* enumerate_all_results are exactly the solutions of the system.
C20_ExactSolutionSet ==
  Enumerated /\ IsSquareSystem(Unwrap(original)) /\ Solutions(Unwrap(original)) # {} =>
    Range(results) = Solutions(Unwrap(original))

C20_Witness ==
  /\ Enumerated
  /\ IsSquareSystem(Unwrap(original))
  /\ Unwrap(original).rows >= 2
  /\ Len(results) = 2
  /\ Cardinality(Solutions(Unwrap(original))) = 2
  /\ Range(results) = Solutions(Unwrap(original))

\* The first call of eliminate has returned.
EliminatedOnce == pc = "eliminated" /\ passes = 1

\* C21 (tie-break independence): whichever order the sort chooses among rows
\* with the same leading column at each of its calls, eliminate leaves one and
\* the same matrix for a given input matrix.
C21_TieBreakIndependent ==
  EliminatedOnce => eliminate(Unwrap(original)) = { Unwrap(matrix) }

C21_Witness ==
  /\ EliminatedOnce
  /\ Cardinality(sort_rows_by_leading_column(Unwrap(original))) >= 2
  /\ Unwrap(matrix).data # Unwrap(original).data
  /\ ~ is_row_zero(Unwrap(matrix), Unwrap(matrix).rows - 1)
  /\ eliminate(Unwrap(original)) = { Unwrap(matrix) }

ShownAll == pc = "shown" /\ Unwrap(shown).mode = "all"

\* C22 (consistent solution numbering): all mode lists each assignment under
\* its 1-based position in the enumeration order, and the number min mode
\* prints for the solution it chose is the number of that assignment in all
\* mode.
C22_ConsistentNumbering ==
  /\ ShownAll =>
       \A k \in 1..Len(results) :
         /\ Unwrap(shown).printed[k].number = k
         /\ Unwrap(shown).printed[k].board = Unwrap(AssignedBoard(k))
  /\ ShownMin =>
       \A k \in 1..Len(results) :
         Unwrap(AssignedBoard(k)) = Unwrap(shown).board => Unwrap(shown).number = k

====
